---------------------------- MODULE Spec2Model ----------------------------
(***************************************************************************)
(* Model of the quickselect package: selecting the k smallest elements of  *)
(* a collection through Len / Less / Swap.                                 *)
(*                                                                         *)
(* The repository carries several revisions of the package.  Definitions   *)
(* without a suffix model src/quickselect.go; definitions ending in _p3    *)
(* model src/unnamed/part_003 (the revision whose QuickSelect returns      *)
(* lo, hi, err), those ending in _p2 src/unnamed/part_002 (the revision    *)
(* with its own Interface and the randomized selection), and those ending  *)
(* in _p1 or beginning with pdq src/unnamed/part_001 (the pattern-         *)
(* defeating engine).  insertionSort, partition, choosePivot, order2,      *)
(* median, medianAdjacent, sortedness and sampleSize are textually         *)
(* identical in src/quickselect.go and src/unnamed/part_003 and are        *)
(* modelled once.                                                          *)
(*                                                                         *)
(* A collection is a function from 0..n-1 to integers (sort.IntSlice), so  *)
(* indices are the source's indices.  Every operator works on a machine    *)
(* record m:                                                               *)
(*    d    the collection                                                  *)
(*    n    data.Len()                                                      *)
(*    sw   number of data.Swap calls made so far                           *)
(*    ls   number of data.Less calls made so far                           *)
(*    heap the selector's private index array (empty when unused)          *)
(*    ok   FALSE once the run has aborted with an index out of range       *)
(*    rev  TRUE while the collection is seen through a reversing adapter   *)
(*         (sort.Reverse, or Reverse of src/unnamed/part_002)              *)
(*    float TRUE for a Float64Slice, whose elements may be NaN             *)
(***************************************************************************)
EXTENDS Integers, Sequences, FiniteSets, TLC

\* The state of a run: the collection and the k of the call, the input as it
\* was, the position of the caller (pc) and the function called (fn), the
\* returned range and outcome, the counters of Swap and Less, the multiset
\* of the first run, the adapter and the kind of slice, and the variables of
\* the loops followed step by step: the bounds of randomizedSelectionFinding,
\* the variables and the iteration count of pdqQuickSelect, and the index
\* array, the scan position and the removed elements of the heap runs; call
\* holds the arguments and the results of a helper called on its own.
VARIABLES data, k, input, pc, fn, lo, hi, outcome, sw, ls, first,
          reversed, loopLow, loopHigh, kind, pdqVars, iterations,
          heap, scan, have, call

vars == <<data, k, input, pc, fn, lo, hi, outcome, sw, ls, first,
          reversed, loopLow, loopHigh, kind, pdqVars, iterations,
          heap, scan, have, call>>

\* ------------------------------------------------------------------ bounds
MaxLen == 4
MaxVal == 2

Vals == 0..MaxVal

\* ------------------------------------------------------ program constants
partitionThreshold == 8
naiveSelectionLengthThreshold == 100
naiveSelectionThreshold == 10
heapSelectionThreshold == 1000
shortestNinther == 50

\* ------------------------------------------------------------- arithmetic
Min(a, b) == IF a <= b THEN a ELSE b
Max(a, b) == IF a >= b THEN a ELSE b

\* Go's integer division truncates toward zero.
GoDiv(a, b) == IF a >= 0 THEN a \div b ELSE -((-a) \div b)

\* ------------------------------------------------------- sort.IntSlice
Machine(d, n) ==
    [d |-> d, n |-> n, sw |-> 0, ls |-> 0, heap |-> <<>>, ok |-> TRUE, rev |-> FALSE,
     float |-> FALSE]

\* A Float64Slice holds the numbers of Vals and NaN, the one float64 that
\* differs from itself and that < never relates to anything.
NaN == MaxVal + 1

\* return f != f
isNaN(f) == f = NaN

\* Mutant: Less without the clause for NaN.
Float64Slice_Less_plain(x, y) == x # NaN /\ y # NaN /\ x < y

\* return t[i] < t[j] || isNaN(t[i]) && !isNaN(t[j]), on the elements x, y.
Float64Slice_Less(x, y) ==
    (x # NaN /\ y # NaN /\ x < y) \/ (isNaN(x) /\ ~isNaN(y))

\* Float64Slice(data): the collection with the ordering above.
Float64Slice(m) == [m EXCEPT !.float = TRUE]

\* t.Less(i, j) of the slice itself.
SliceLess(m, i, j) ==
    IF m.float THEN Float64Slice_Less(m.d[i], m.d[j]) ELSE m.d[i] < m.d[j]

\* data.Len() of a collection d.
Size(d) == Cardinality(DOMAIN d)

\* The value of data.Less(i, j); the call itself is counted by Tick.  Through
\* the reversing adapter it is the underlying Less(j, i).
Less(m, i, j) == IF m.rev THEN SliceLess(m, j, i) ELSE SliceLess(m, i, j)

\* Mutant: the adapter hands the collection back as it is.
Reverse_same(m) == m

\* sort.Reverse(data), and Reverse(data) of src/unnamed/part_002: Len and
\* Swap are the embedded collection's, Less has its arguments exchanged.
Reverse(m) == [m EXCEPT !.rev = ~@]

Tick(m, c) == [m EXCEPT !.ls = @ + c]

\* Mutant: an exchange that overwrites position i and keeps position j.
Swap_overwriting(m, i, j) == [m EXCEPT !.d = [@ EXCEPT ![i] = m.d[j]], !.sw = @ + 1]

Swap(m, i, j) ==
    [m EXCEPT !.d = [@ EXCEPT ![i] = m.d[j], ![j] = m.d[i]], !.sw = @ + 1]

\* A function's return: the machine it leaves and the pair it returns.
Ret(m, l, h) == [m |-> m, lo |-> l, hi |-> h]

\* ------------------------------------------------------------ findMinimum
RECURSIVE findMinimumLoop(_, _, _, _)
findMinimumLoop(m, length, i, minIndex) ==
    IF i < length
    THEN findMinimumLoop(Tick(m, 1), length, i + 1,
                         IF Less(m, i, minIndex) THEN i ELSE minIndex)
    ELSE [m |-> m, r |-> minIndex]

\* Mutant: the scan stops one element short.
findMinimum_short(m, length) == findMinimumLoop(m, length - 1, 1, 0)

findMinimum(m, length) == findMinimumLoop(m, length, 1, 0)

\* lo = findMinimum(data, n); return lo, lo + 1
minimumRange(f) == Ret(f.m, f.r, f.r + 1)

\* ------------------------------------------------------------- sortedness
\* ceil(popSize / (1 + popSize * 0.05^2)), capped at popSize; 0.05^2 = 1/400,
\* so the quotient is 400 * popSize / (400 + popSize).
sampleSize(popSize) ==
    LET num == 400 * popSize
        den == 400 + popSize
    IN  Min((num + den - 1) \div den, popSize)

\* One iteration of the sampling loop of sortedness: if data.Less(i, j)
\* { ordered++ } else if data.Less(j, i) { inverted++ }, with j = i + 1.
sortednessStep(m, i, ordered, inverted) ==
    IF Less(m, i, i + 1)
    THEN [m |-> Tick(m, 1), ordered |-> ordered + 1, inverted |-> inverted]
    ELSE IF Less(m, i + 1, i)
    THEN [m |-> Tick(m, 2), ordered |-> ordered, inverted |-> inverted + 1]
    ELSE [m |-> Tick(m, 2), ordered |-> ordered, inverted |-> inverted]

\* The sampling loop of sortedness; r is the result of an iteration.
RECURSIVE sortednessLoop(_, _, _, _, _)
sortednessLoop(m, i, stride, ordered, inverted) ==
    IF i < m.n - 1
    THEN LET r == sortednessStep(m, i, ordered, inverted)
         IN  sortednessLoop(r.m, i + stride, stride, r.ordered, r.inverted)
    ELSE [m |-> m, ordered |-> ordered, inverted |-> inverted]

\* stride := ln / sampleSize; if stride < 1 { stride = 1 }
strideOf(ln) == Max(ln \div sampleSize(ln), 1)

\* The score is the quotient num / den (a float32 in the source); every
\* caller only tests its sign, which is the sign of num since den > 0
\* whenever n >= 2.
sortednessScore(r, stride) ==
    [m |-> r.m, num |-> r.ordered - r.inverted, den |-> (r.m.n - 1) \div stride]

sortedness(m) ==
    LET ln == m.n IN
    IF ln <= 1 THEN [m |-> m, num |-> 1, den |-> 1]
    ELSE IF ln = 2 /\ Less(m, 0, 1) THEN [m |-> Tick(m, 1), num |-> 1, den |-> 1]
    ELSE IF ln = 2 /\ Less(m, 1, 0) THEN [m |-> Tick(m, 2), num |-> -1, den |-> 1]
    ELSE sortednessScore(
             sortednessLoop(IF ln = 2 THEN Tick(m, 2) ELSE m, 0, strideOf(ln), 0, 0),
             strideOf(ln))

\* ------------------------------------------- heapSelect (src/quickselect.go)
InHeap(m, x) == x \in DOMAIN m.heap

\* An index out of range aborts the run (a Go run-time panic).
Panic(m) == [m EXCEPT !.ok = FALSE]

HeapSwap(m, i, j) ==
    [m EXCEPT !.heap = [@ EXCEPT ![i] = m.heap[j], ![j] = m.heap[i]]]

RECURSIVE heapDownLoop(_, _, _)
heapDownLoop(m, i, kk) ==
    LET j1 == 2 * i + 1 IN
    IF j1 >= kk \/ j1 < 0 THEN [m |-> m, i |-> i]
    ELSE LET j2 == j1 + 1
             m1 == IF j2 < kk THEN Tick(m, 1) ELSE m
             j  == IF j2 < kk /\ Less(m, m.heap[j2], m.heap[j1]) THEN j2 ELSE j1
             m2 == Tick(m1, 1)
         IN  IF ~Less(m, m.heap[j], m.heap[i]) THEN [m |-> m2, i |-> i]
             ELSE heapDownLoop(HeapSwap(m2, i, j), j, kk)

\* return i > i0
movedDown(r, i0) == [m |-> r.m, r |-> r.i > i0]

\* Mutant: heapDown leaves the heap as it is.
heapDown_still(m, i0, kk) == movedDown([m |-> m, i |-> i0], i0)

heapDown(m, i0, kk) == movedDown(heapDownLoop(m, i0, kk), i0)

RECURSIVE heapInitLoop(_, _, _)
heapInitLoop(m, i, kk) ==
    IF i >= 0 THEN heapInitLoop(heapDown(m, i, kk).m, i - 1, kk) ELSE m

heapInit(m) ==
    LET kk == Cardinality(DOMAIN m.heap) IN heapInitLoop(m, kk \div 2 - 1, kk)

RECURSIVE revHeapDownLoop(_, _, _)
revHeapDownLoop(m, i, kk) ==
    LET n     == m.n
        hh    == n - kk
        left  == n - 2 * (n - i)
        right == left - 1
    IN
    IF left < hh THEN [m |-> m, i |-> i]
    ELSE IF right >= 0 /\ ~(InHeap(m, right) /\ InHeap(m, left))
    THEN [m |-> Panic(m), i |-> i]
    ELSE LET m1 == IF right >= 0 THEN Tick(m, 1) ELSE m
             j  == IF right >= 0 /\ Less(m, m.heap[right], m.heap[left])
                   THEN right ELSE left
             m2 == Tick(m1, 1)
         IN  IF ~(InHeap(m, j) /\ InHeap(m, i)) THEN [m |-> Panic(m1), i |-> i]
             ELSE IF ~Less(m, m.heap[j], m.heap[i]) THEN [m |-> m2, i |-> i]
             ELSE revHeapDownLoop(HeapSwap(m2, i, j), j, kk)

\* return i < i0
movedUp(r, i0) == [m |-> r.m, r |-> r.i < i0]

revHeapDown(m, i0, kk) == movedUp(revHeapDownLoop(m, i0, kk), i0)

RECURSIVE revHeapInitLoop(_, _, _)
revHeapInitLoop(m, i, kk) ==
    IF m.ok /\ i < m.n THEN revHeapInitLoop(revHeapDown(m, i, kk).m, i + 1, kk) ELSE m

revHeapInit(m) ==
    LET kk == Cardinality(DOMAIN m.heap)
    IN  revHeapInitLoop(m, m.n - kk \div 2 - 1, kk)

\* for i := k; i < n; i++ { if data.Less(i, root) { heap[root] = i; heapDown } }
\* (heapScanStep is the body of the loop for one i)
heapScanStep(m, i, kk) ==
    LET root == 0 IN
    IF Less(m, i, root)
    THEN heapDown([Tick(m, 1) EXCEPT !.heap[root] = i], root, kk).m
    ELSE Tick(m, 1)

RECURSIVE heapScan(_, _, _)
heapScan(m, i, kk) ==
    IF i < m.n THEN heapScan(heapScanStep(m, i, kk), i + 1, kk) ELSE m

\* for i := n - k - 1; i < n; i++ { if data.Less(i, root) { heap[root] = i; revHeapDown } }
\* (an index outside the collection or the heap aborts the run)
RECURSIVE revHeapScan(_, _, _)
revHeapScan(m, i, kk) ==
    LET root == m.n - 1 IN
    IF m.ok /\ i < m.n
    THEN IF ~(i \in DOMAIN m.d) THEN Panic(m)
         ELSE IF Less(m, i, root)
         THEN IF ~InHeap(m, root) THEN Panic(Tick(m, 1))
              ELSE revHeapScan(
                       revHeapDown([Tick(m, 1) EXCEPT !.heap[root] = i], root, kk).m,
                       i + 1, kk)
         ELSE revHeapScan(Tick(m, 1), i + 1, kk)
    ELSE m

\* for i, j := n-k, n-1; i < j; i, j = i+1, j-1 { data.Swap(i, j) }
RECURSIVE reverseTail(_, _, _)
reverseTail(m, i, j) ==
    IF m.ok /\ i < j THEN reverseTail(Swap(m, i, j), i + 1, j - 1) ELSE m

\* Mutant: the index array is left in the order it has.
sortHeap_asIs(m) == m

\* slices.Sort(heap): position i receives the value of rank i.
sortHeap(m) ==
    LET h == m.heap
        below(v) == Cardinality({x \in DOMAIN h : h[x] < v})
        upto(v)  == Cardinality({x \in DOMAIN h : h[x] <= v})
    IN  [m EXCEPT !.heap = [i \in DOMAIN h |->
            CHOOSE v \in {h[x] : x \in DOMAIN h} : below(v) <= i /\ i < upto(v)]]

\* for i := range heap { data.Swap(i, heap[i]) }
RECURSIVE swapToFront(_, _, _)
swapToFront(m, i, kk) ==
    IF i < kk THEN swapToFront(Swap(m, i, m.heap[i]), i + 1, kk) ELSE m

\* slices.Sort(heap) and the final exchange, unless the run has aborted.
heapSelectFinish(m, kk) ==
    Ret(IF m.ok THEN swapToFront(sortHeap(m), 0, kk) ELSE m, 0, kk)

\* The two branches on the sortedness estimate s.
heapSelectBranch(s, kk) ==
    heapSelectFinish(
        IF s.num >= 0
        THEN heapScan(heapInit(s.m), kk, kk)
        ELSE reverseTail(revHeapScan(revHeapInit(s.m), s.m.n - kk - 1, kk),
                         s.m.n - kk, s.m.n - 1),
        kk)

\* heapSelect from the allocation of the heap on (2 <= k < n in the source).
heapSelectBody(m, kk) ==
    heapSelectBranch(sortedness([m EXCEPT !.heap = [i \in 0..kk - 1 |-> i]]), kk)

\* Mutant: the early return tests k > n instead of k >= n.
heapSelect_fullOffByOne(m, kk) ==
    IF kk <= 0 \/ m.n <= 0 THEN Ret(m, 0, 0)
    ELSE IF kk = 1 THEN minimumRange(findMinimum(m, m.n))
    ELSE IF kk > m.n THEN Ret(m, 0, m.n)
    ELSE heapSelectBody(m, kk)

heapSelect(m, kk) ==
    IF kk <= 0 \/ m.n <= 0 THEN Ret(m, 0, 0)
    ELSE IF kk = 1 THEN minimumRange(findMinimum(m, m.n))
    ELSE IF kk >= m.n THEN Ret(m, 0, m.n)
    ELSE heapSelectBody(m, kk)

\* ------------------------------------------- QuickSelect (src/quickselect.go)
\* The dispatcher is commented out in this revision: every call goes to
\* heapSelect.
QuickSelect(m, kk) == heapSelect(m, kk)

\* ------------------------------------------------------------ naiveSelect
\* largestIdx := 0; for i := 1; i < k; i++ { if data.Less(largestIdx, i) { largestIdx = i } }
\* Mutant: the comparison is the wrong way round, so the smallest is tracked.
RECURSIVE largestOf_reversed(_, _, _, _)
largestOf_reversed(m, i, kk, largestIdx) ==
    IF i < kk
    THEN largestOf_reversed(Tick(m, 1), i + 1, kk,
                            IF Less(m, i, largestIdx) THEN i ELSE largestIdx)
    ELSE [m |-> m, r |-> largestIdx]

RECURSIVE largestOf(_, _, _, _)
largestOf(m, i, kk, largestIdx) ==
    IF i < kk
    THEN largestOf(Tick(m, 1), i + 1, kk,
                   IF Less(m, largestIdx, i) THEN i ELSE largestIdx)
    ELSE [m |-> m, r |-> largestIdx]

\* One iteration of the scan: if data.Less(i, largestIdx) { data.Swap(i,
\* largestIdx); largestIdx = 0; for j := 1; j < k; j++ { ... } }.
naiveScanStep(m, i, kk, largestIdx) ==
    IF Less(m, i, largestIdx)
    THEN largestOf(Swap(Tick(m, 1), i, largestIdx), 1, kk, 0)
    ELSE [m |-> Tick(m, 1), r |-> largestIdx]

\* for i := k; i < length; i++ { ... }
\* naiveResume continues the scan at i with the largest index g.r just computed.
RECURSIVE naiveScan(_, _, _, _)
RECURSIVE naiveResume(_, _, _)
naiveResume(g, i, kk) == naiveScan(g.m, i, kk, g.r)

naiveScan(m, i, kk, largestIdx) ==
    IF i < m.n
    THEN naiveResume(naiveScanStep(m, i, kk, largestIdx), i + 1, kk)
    ELSE m

naiveBody(m, kk) == Ret(naiveResume(largestOf(m, 1, kk, 0), kk, kk), 0, kk)

naiveSelect(m, kk) ==
    IF kk <= 0 \/ m.n <= 0 THEN Ret(m, 0, 0)
    ELSE IF kk = 1 THEN minimumRange(findMinimum(m, m.n))
    ELSE IF kk >= m.n THEN Ret(m, 0, m.n)
    ELSE naiveBody(m, kk)

naiveSelect_p3(m, kk) ==
    IF kk >= m.n THEN Ret(m, 0, m.n) ELSE naiveBody(m, kk)

\* ---------------------------------------------------------- insertionSort
RECURSIVE insertionInner(_, _, _)
insertionInner(m, j, a) ==
    IF j > a
    THEN IF Less(m, j, j - 1)
         THEN insertionInner(Swap(Tick(m, 1), j, j - 1), j - 1, a)
         ELSE Tick(m, 1)
    ELSE m

RECURSIVE insertionOuter(_, _, _, _)
insertionOuter(m, i, a, b) ==
    IF i < b THEN insertionOuter(insertionInner(m, i, a), i + 1, a, b) ELSE m

insertionSort(m, a, b) == insertionOuter(m, a + 1, a, b)

\* -------------------------------------------------------------- partition
\* for i <= j && data.Less(i, a) { i++ }
RECURSIVE partitionUp(_, _, _, _)
partitionUp(m, i, j, a) ==
    IF i <= j
    THEN IF Less(m, i, a) THEN partitionUp(Tick(m, 1), i + 1, j, a)
         ELSE [m |-> Tick(m, 1), r |-> i]
    ELSE [m |-> m, r |-> i]

\* for i <= j && !data.Less(j, a) { j-- }
RECURSIVE partitionDown(_, _, _, _)
partitionDown(m, i, j, a) ==
    IF i <= j
    THEN IF ~Less(m, j, a) THEN partitionDown(Tick(m, 1), i, j - 1, a)
         ELSE [m |-> Tick(m, 1), r |-> j]
    ELSE [m |-> m, r |-> j]

\* One round of the two scans, u the result of the scan from the left and v
\* of the scan from the right; the source writes the first round out before
\* its loop, with the same exit (data.Swap(j, a); return j).
RECURSIVE partitionLoop(_, _, _, _)
RECURSIVE partitionCrossed(_, _, _)
RECURSIVE partitionRight(_, _, _)
partitionCrossed(v, i, a) ==
    IF i > v.r THEN [m |-> Swap(v.m, v.r, a), r |-> v.r]
    ELSE partitionLoop(Swap(v.m, i, v.r), i + 1, v.r - 1, a)

partitionRight(u, j, a) == partitionCrossed(partitionDown(u.m, u.r, j, a), u.r, a)

partitionLoop(m, i, j, a) == partitionRight(partitionUp(m, i, j, a), j, a)

\* partition without the exchange that brings the pivot to a.
partition_unmoved(m, a, b, pivot) == partitionLoop(m, a + 1, b - 1, a)

partition(m, a, b, pivot) == partitionLoop(Swap(m, a, pivot), a + 1, b - 1, a)

\* ------------------------------------------------------------ choosePivot
\* A comparison at an index the collection does not have aborts the run.
order2(m, a, b, swaps) ==
    IF ~(a \in DOMAIN m.d /\ b \in DOMAIN m.d)
    THEN [m |-> Panic(Tick(m, 1)), x |-> a, y |-> b, swaps |-> swaps]
    ELSE IF Less(m, b, a)
    THEN [m |-> Tick(m, 1), x |-> b, y |-> a, swaps |-> swaps + 1]
    ELSE [m |-> Tick(m, 1), x |-> a, y |-> b, swaps |-> swaps]

\* a, b = order2(a, b); b, c = order2(b, c); a, b = order2(a, b); return b
\* (o1, o2, o3 are the results of the three calls).
medianThird(o3) == [m |-> o3.m, r |-> o3.y, swaps |-> o3.swaps]

medianSecond(o2, a) == medianThird(order2(o2.m, a, o2.x, o2.swaps))

medianFirst(o1, c) == medianSecond(order2(o1.m, o1.y, c, o1.swaps), o1.x)

median(m, a, b, c, swaps) == medianFirst(order2(m, a, b, swaps), c)

\* Mutant: the neighbours are taken thirteen positions away.
medianAdjacent_apart(m, a, swaps) == median(m, a - 13, a, a + 13, swaps)

medianAdjacent(m, a, swaps) == median(m, a - 1, a, a + 1, swaps)

\* The ninther: i, j, k are replaced by the medians mi, mj, mk of their
\* neighbourhoods, then the median of the three is taken.
nintherThird(mk, i, j) == median(mk.m, i, j, mk.r, mk.swaps)

nintherSecond(mj, i, kx) == nintherThird(medianAdjacent(mj.m, kx, mj.swaps), i, mj.r)

nintherFirst(mi, j, kx) == nintherSecond(medianAdjacent(mi.m, j, mi.swaps), mi.r, kx)

choosePivot(m, a, b) ==
    LET l  == b - a
        i  == a + (l \div 4) * 1
        j  == a + (l \div 4) * 2
        kx == a + (l \div 4) * 3
    IN  IF l >= 8
        THEN IF l >= shortestNinther
             THEN nintherFirst(medianAdjacent(m, i, 0), j, kx)
             ELSE median(m, i, j, kx, 0)
        ELSE [m |-> m, r |-> j, swaps |-> 0]

\* ---------------------------------------------------------- partition3Way
\* for i <= gt { if Less(i, a) { Swap(lt, i); lt++; i++ }
\*               else if Less(a, i) { Swap(i, gt); gt-- } else { i++ } }
RECURSIVE partition3WayLoop(_, _, _, _, _)
partition3WayLoop(m, lt, gt, i, a) ==
    IF i <= gt
    THEN IF Less(m, i, a)
         THEN partition3WayLoop(Swap(Tick(m, 1), lt, i), lt + 1, gt, i + 1, a)
         ELSE IF Less(m, a, i)
         THEN partition3WayLoop(Swap(Tick(m, 2), i, gt), lt, gt - 1, i, a)
         ELSE partition3WayLoop(Tick(m, 2), lt, gt, i + 1, a)
    ELSE [m |-> m, lt |-> lt, gt |-> gt]

\* if lt == a && gt == b-1 { return a, b - 1 }; data.Swap(a, lt); return lt, gt
partition3WayEnd(w, a, b) ==
    IF w.lt = a /\ w.gt = b - 1 THEN [m |-> w.m, lt |-> a, gt |-> b - 1]
    ELSE [m |-> Swap(w.m, a, w.lt), lt |-> w.lt, gt |-> w.gt]

partition3Way(m, a, b, pivot) ==
    partition3WayEnd(partition3WayLoop(Swap(m, a, pivot), a, b - 1, a + 1, a), a, b)

\* ------------------------------------------- quickSelect (src/quickselect.go)
\* The loop "for b > a"; kk is k after "k += a" with a = 0.  quickSelectNarrow
\* is the loop body after partition3Way has returned w = (lt, gt).
RECURSIVE quickSelectLoop(_, _, _, _)
RECURSIVE quickSelectNarrow(_, _, _, _)
quickSelectNarrow(w, a, b, kk) ==
    IF kk < w.lt THEN quickSelectLoop(w.m, a, w.lt - 1, kk)
    ELSE IF kk > w.gt THEN quickSelectLoop(w.m, w.gt + 1, b, kk)
    ELSE Ret(w.m, a, kk)

quickSelectPivot(c, a, b) == partition3Way(c.m, a, b, c.r)

quickSelectLoop(m, a, b, kk) ==
    IF b > a
    THEN IF b - a <= partitionThreshold
         THEN Ret(insertionSort(m, a, b + 1), a, kk)
         ELSE quickSelectNarrow(quickSelectPivot(choosePivot(m, a, b), a, b), a, b, kk)
    ELSE Ret(m, a, a)

\* s := sortedness(data); if s < 0 { data = sort.Reverse(data) }
quickSelectOrient(s) == IF s.num < 0 THEN Reverse(s.m) ELSE s.m

\* quickSelect after the estimate: the k == 1 case and the loop.
quickSelectBody(m, kk) ==
    IF kk = 1 THEN minimumRange(findMinimum(m, m.n))
    ELSE quickSelectLoop(m, 0, m.n - 1, kk)

quickSelect(m, kk) ==
    IF kk <= 0 \/ m.n <= 0 THEN Ret(m, 0, 0)
    ELSE IF kk >= m.n THEN Ret(m, 0, m.n)
    ELSE quickSelectBody(quickSelectOrient(sortedness(m)), kk)

\* ------------------------------------ quickSelect (src/unnamed/part_003)
\* for i := pivotIndex + 1; i <= high && !Less(pivotIndex, i) && !Less(i, pivotIndex); i++
RECURSIVE equalRun(_, _, _, _, _)
equalRun(m, i, high, pivotIndex, equalSize) ==
    IF i <= high
    THEN IF Less(m, pivotIndex, i) THEN [m |-> Tick(m, 1), r |-> equalSize]
         ELSE IF Less(m, i, pivotIndex) THEN [m |-> Tick(m, 2), r |-> equalSize]
         ELSE equalRun(Tick(m, 2), i + 1, high, pivotIndex, equalSize + 1)
    ELSE [m |-> m, r |-> equalSize]

\* The loop body after the pivot has been chosen (c), the range partitioned
\* (p, the pivot index in p.r) and the equal elements counted (e).
RECURSIVE quickSelect_p3(_, _, _, _)
RECURSIVE quickSelectNarrow_p3(_, _, _, _, _)
RECURSIVE quickSelectCount_p3(_, _, _, _)
RECURSIVE quickSelectPartition_p3(_, _, _, _)
quickSelectNarrow_p3(e, pivotIndex, low, high, kk) ==
    LET leftSize  == pivotIndex - low
        equalSize == e.r
    IN  IF kk <= leftSize
        THEN quickSelect_p3(e.m, low, pivotIndex - 1, kk)
        ELSE IF kk > leftSize + equalSize
        THEN quickSelect_p3(e.m, pivotIndex + equalSize, high,
                            kk - (leftSize + equalSize))
        ELSE Ret(e.m, low, low + kk)

quickSelectCount_p3(p, low, high, kk) ==
    quickSelectNarrow_p3(equalRun(p.m, p.r + 1, high, p.r, 1), p.r, low, high, kk)

quickSelectPartition_p3(c, low, high, kk) ==
    quickSelectCount_p3(partition(c.m, low, high + 1, c.r), low, high, kk)

quickSelect_p3(m, low, high, kk) ==
    IF high - low <= partitionThreshold
    THEN Ret(insertionSort(m, low, high + 1), low, low + kk)
    ELSE quickSelectPartition_p3(choosePivot(m, low, high + 1), low, high, kk)

\* ------------------------------------- heapSelect (src/unnamed/part_003)
RECURSIVE maxHeapDownLoop(_, _, _)
maxHeapDownLoop(m, i, n) ==
    LET j1 == 2 * i + 1 IN
    IF j1 >= n \/ j1 < 0 THEN [m |-> m, i |-> i]
    ELSE LET j2 == j1 + 1
             m1 == IF j2 < n THEN Tick(m, 1) ELSE m
             j  == IF j2 < n /\ Less(m, j1, j2) THEN j2 ELSE j1
             m2 == Tick(m1, 1)
         IN  IF ~Less(m, i, j) THEN [m |-> m2, i |-> i]
             ELSE maxHeapDownLoop(Swap(m2, i, j), j, n)

maxHeapDown(m, i0, n) == movedDown(maxHeapDownLoop(m, i0, n), i0)

RECURSIVE maxHeapInitLoop(_, _, _)
maxHeapInitLoop(m, i, n) ==
    IF i >= 0 THEN maxHeapInitLoop(maxHeapDown(m, i, n).m, i - 1, n) ELSE m

maxHeapInit(m, n) == maxHeapInitLoop(m, n \div 2 - 1, n)

RECURSIVE maxHeapUp(_, _)
maxHeapUp(m, j) ==
    LET i == GoDiv(j - 1, 2) IN
    IF i = j THEN m
    ELSE IF ~Less(m, i, j) THEN Tick(m, 1)
    ELSE maxHeapUp(Swap(Tick(m, 1), i, j), i)

\* if !maxHeapDown(h, i, n) { maxHeapUp(h, i) }
maxHeapFixUp(dn, i) == IF ~dn.r THEN maxHeapUp(dn.m, i) ELSE dn.m

maxHeapFix(m, n, i) == maxHeapFixUp(maxHeapDown(m, i, n), i)

RECURSIVE minHeapReverseDownLoop(_, _, _)
minHeapReverseDownLoop(m, i, n) ==
    LET j1 == 2 * i + 1 IN
    IF j1 >= n \/ j1 < 0 THEN [m |-> m, i |-> i]
    ELSE LET j2 == j1 + 1
             m1 == IF j2 < n THEN Tick(m, 1) ELSE m
             j  == IF j2 < n /\ Less(m, n - 1 - j2, n - 1 - j1) THEN j2 ELSE j1
             m2 == Tick(m1, 1)
         IN  IF ~Less(m, n - 1 - j, n - 1 - i) THEN [m |-> m2, i |-> i]
             ELSE minHeapReverseDownLoop(Swap(m2, n - 1 - i, n - 1 - j), j, n)

minHeapReverseDown(m, i0, n) == movedDown(minHeapReverseDownLoop(m, i0, n), i0)

RECURSIVE minHeapReverseInitLoop(_, _, _)
minHeapReverseInitLoop(m, i, n) ==
    IF i >= 0 THEN minHeapReverseInitLoop(minHeapReverseDown(m, i, n).m, i - 1, n)
    ELSE m

minHeapReverseInit(m, n) == minHeapReverseInitLoop(m, n \div 2 - 1, n)

RECURSIVE minHeapReverseUp(_, _, _)
minHeapReverseUp(m, j, n) ==
    LET i == GoDiv(j - 1, 2) IN
    IF i = j THEN m
    ELSE IF ~Less(m, n - 1 - j, n - 1 - i) THEN Tick(m, 1)
    ELSE minHeapReverseUp(Swap(Tick(m, 1), n - 1 - i, n - 1 - j), i, n)

\* if !minHeapReverseDown(h, i, n) { minHeapReverseUp(h, i, n) }
minHeapReverseFixUp(dn, i, n) == IF ~dn.r THEN minHeapReverseUp(dn.m, i, n) ELSE dn.m

minHeapReverseFix(m, n, i) == minHeapReverseFixUp(minHeapReverseDown(m, i, n), i, n)

\* for i := l - k - 1; i >= 0; i-- { if data.Less(i, l-1) { swap; fix } }
RECURSIVE minHeapScan_p3(_, _, _)
minHeapScan_p3(m, i, kk) ==
    LET l == m.n IN
    IF i >= 0
    THEN IF Less(m, i, l - 1)
         THEN minHeapScan_p3(minHeapReverseFix(Swap(Tick(m, 1), i, l - 1), kk, kk - 1),
                             i - 1, kk)
         ELSE minHeapScan_p3(Tick(m, 1), i - 1, kk)
    ELSE m

\* for i := k; i < l; i++ { if data.Less(i, 0) { swap; fix } }
RECURSIVE maxHeapScan_p3(_, _, _)
maxHeapScan_p3(m, i, kk) ==
    IF i < m.n
    THEN IF Less(m, i, 0)
         THEN maxHeapScan_p3(maxHeapFix(Swap(Tick(m, 1), i, 0), kk, 0), i + 1, kk)
         ELSE maxHeapScan_p3(Tick(m, 1), i + 1, kk)
    ELSE m

\* The two branches on the sortedness estimate s.
heapSelectBranch_p3(s, kk) ==
    IF s.num < 0
    THEN Ret(minHeapScan_p3(minHeapReverseInit(s.m, kk), s.m.n - kk - 1, kk),
             s.m.n - kk, s.m.n)
    ELSE Ret(maxHeapScan_p3(maxHeapInit(s.m, kk), kk, kk), 0, kk)

heapSelect_p3(m, kk) ==
    IF kk >= m.n THEN Ret(m, 0, m.n) ELSE heapSelectBranch_p3(sortedness(m), kk)

\* ------------------------------------ QuickSelect (src/unnamed/part_003)
\* kRatio <= heapSelectionKRatio, with kRatio = k / length and the ratio 0.001.
kRatioSmall(kk, length) == 1000 * kk <= length

\* A return of (lo, hi, err): err is TRUE for the non-nil error.
RetErr(r, e) == [m |-> r.m, lo |-> r.lo, hi |-> r.hi, err |-> e]

\* The dispatcher, for 1 <= k < length.
dispatch_p3(m, kk) ==
    IF m.n <= naiveSelectionLengthThreshold /\ kk <= naiveSelectionThreshold
    THEN naiveSelect_p3(m, kk)
    ELSE IF kRatioSmall(kk, m.n) /\ kk <= heapSelectionThreshold
    THEN heapSelect_p3(m, kk)
    ELSE quickSelect_p3(m, 0, m.n - 1, kk)

\* Mutant: the validation forgets the upper limit.
QuickSelect_p3_noUpper(m, kk) ==
    IF kk < 1 THEN RetErr(Ret(m, 0, 0), TRUE)
    ELSE IF kk = m.n THEN RetErr(Ret(m, 0, m.n), FALSE)
    ELSE RetErr(dispatch_p3(m, kk), FALSE)

QuickSelect_p3(m, kk) ==
    IF kk < 1 \/ kk > m.n THEN RetErr(Ret(m, 0, 0), TRUE)
    ELSE IF kk = m.n THEN RetErr(Ret(m, 0, m.n), FALSE)
    ELSE RetErr(dispatch_p3(m, kk), FALSE)

\* ------------------------------- naiveSelectionFinding (src/unnamed/part_002)
\* The loop of resetLargestIndex over the index array m.heap.
RECURSIVE resetLargestLoop(_, _, _, _)
resetLargestLoop(m, i, largestIndex, currentLargest) ==
    IF i < Cardinality(DOMAIN m.heap)
    THEN IF Less(m, currentLargest, m.heap[i])
         THEN resetLargestLoop(Tick(m, 1), i + 1, i, m.heap[i])
         ELSE resetLargestLoop(Tick(m, 1), i + 1, largestIndex, currentLargest)
    ELSE HeapSwap(m, Cardinality(DOMAIN m.heap) - 1, largestIndex)

resetLargestIndex(m) == resetLargestLoop(m, 1, 0, m.heap[0])

\* for i := k; i < length; i++ { if Less(i, smallestIndices[k-1]) { ... } }
RECURSIVE naiveSelectionScan(_, _, _)
naiveSelectionScan(m, i, kk) ==
    IF i < m.n
    THEN IF Less(m, i, m.heap[kk - 1])
         THEN naiveSelectionScan(
                  resetLargestIndex([Tick(m, 1) EXCEPT !.heap[kk - 1] = i]), i + 1, kk)
         ELSE naiveSelectionScan(Tick(m, 1), i + 1, kk)
    ELSE m

\* insertionSort(IntSlice(smallestIndices), 0, k) sorts the index array, which
\* is a collection of its own: its comparisons and exchanges are not calls on
\* data.  Then data.Swap(i, smallestIndices[i]) for i = 0..k-1.
naiveSelectionFinding(m, kk) ==
    swapToFront(
        sortHeap(naiveSelectionScan(
            resetLargestIndex([m EXCEPT !.heap = [i \in 0..kk - 1 |-> i]]), kk, kk)),
        0, kk)

\* -------------------------------- heapSelectionFinding (src/unnamed/part_002)
\* sortedness of this revision returns 1.0 for every collection of length 2.
sortedness_p2(m) ==
    IF m.n <= 2 THEN [m |-> m, num |-> 1, den |-> 1]
    ELSE sortednessScore(sortednessLoop(m, 0, strideOf(m.n), 0, 0), strideOf(m.n))

\* for i := 0; i < k; i++ { data.Swap(i, last-i) }
RECURSIVE swapEnds(_, _, _)
swapEnds(m, i, kk) ==
    IF i < kk THEN swapEnds(Swap(m, i, m.n - 1 - i), i + 1, kk) ELSE m

\* if s < 0 { exchange the first k with the last k }
heapSelectionOrient(s, kk) == IF s.num < 0 THEN swapEnds(s.m, 0, kk) ELSE s.m

\* heapify, fix, up and down of this revision are maxHeapInit, maxHeapFix,
\* maxHeapUp and maxHeapDown of src/unnamed/part_003 under other names.
heapSelectionFinding(m, kk) ==
    IF kk >= m.n THEN m
    ELSE maxHeapScan_p3(maxHeapInit(heapSelectionOrient(sortedness_p2(m), kk), kk), kk, kk)

\* -------------------------- randomizedSelectionFinding (src/unnamed/part_002)
\* Mutant: the comparison with the pivot has its arguments exchanged.
RECURSIVE partitionLoop_p2_exchanged(_, _, _, _)
partitionLoop_p2_exchanged(m, i, high, partitionIndex) ==
    IF i < high
    THEN IF Less(m, high, i)
         THEN partitionLoop_p2_exchanged(Swap(Tick(m, 1), i, partitionIndex), i + 1,
                                         high, partitionIndex + 1)
         ELSE partitionLoop_p2_exchanged(Tick(m, 1), i + 1, high, partitionIndex)
    ELSE [m |-> Swap(m, partitionIndex, high), r |-> partitionIndex]

RECURSIVE partitionLoop_p2(_, _, _, _)
partitionLoop_p2(m, i, high, partitionIndex) ==
    IF i < high
    THEN IF Less(m, i, high)
         THEN partitionLoop_p2(Swap(Tick(m, 1), i, partitionIndex), i + 1, high,
                               partitionIndex + 1)
         ELSE partitionLoop_p2(Tick(m, 1), i + 1, high, partitionIndex)
    ELSE [m |-> Swap(m, partitionIndex, high), r |-> partitionIndex]

partition_p2(m, low, high, pivotIndex) ==
    partitionLoop_p2(Swap(m, pivotIndex, high), low, high, low)

\* The state of the loop of randomizedSelectionFinding: the machine, the
\* bounds, whether another iteration follows, and whether QuickSelect has
\* returned an error.
Loop(m, low, high, again) ==
    [m |-> m, low |-> low, high |-> high, loop |-> again, err |-> FALSE]

\* if k < pivotIndex { high = pivotIndex - 1 } else if k > pivotIndex
\* { low = pivotIndex + 1 } else { return }, p the result of partition.
randomizedNarrow(p, low, high, kk) ==
    IF kk < p.r THEN Loop(p.m, low, p.r - 1, TRUE)
    ELSE IF kk > p.r THEN Loop(p.m, p.r + 1, high, TRUE)
    ELSE Loop(p.m, low, high, FALSE)

\* One iteration of the loop; random is the value rand.IntN(high+1-low) drew.
randomizedSelectionFinding(m, low, high, kk, random) ==
    IF low >= high THEN Loop(m, low, high, FALSE)
    ELSE IF high - low <= partitionThreshold
    THEN Loop(insertionSort(m, low, high + 1), low, high, FALSE)
    ELSE randomizedNarrow(partition_p2(m, low, high, random + low), low, high, kk)

\* ------------------------------------ QuickSelect (src/unnamed/part_002)
\* The call up to its return or, on the third branch, up to the entry of
\* randomizedSelectionFinding(data, 0, length-1, k).
dispatch_p2(m, kk) ==
    IF m.n <= naiveSelectionLengthThreshold /\ kk <= naiveSelectionThreshold
    THEN Loop(naiveSelectionFinding(m, kk), 0, 0, FALSE)
    ELSE IF kRatioSmall(kk, m.n) /\ kk <= heapSelectionThreshold
    THEN Loop(heapSelectionFinding(m, kk), 0, 0, FALSE)
    ELSE Loop(m, 0, m.n - 1, TRUE)

QuickSelect_p2(m, kk) ==
    IF kk < 1 \/ kk > m.n THEN [Loop(m, 0, 0, FALSE) EXCEPT !.err = TRUE]
    ELSE dispatch_p2(m, kk)

\* ----------------------------------- pdqQuickSelect (src/unnamed/part_001)
\* The functions pdqQuickSelect calls by names ending in _func are not part
\* of the sources at hand; they are modelled from the engine's description
\* (insertion sort, heapsort, pattern breaking, the pivot chooser with its
\* hint, range reversal, the bounded partial insertion sort, the equal-run
\* partition and the two-way partition reporting whether it exchanged
\* anything).
maxInsertion == 12

\* bits.Len(uint(n)): the number of bits of n.
\* The least L with 2^L >= n, that is ceil(log2(n)), in place of the bit length.
bitsLen_ceil(n) == CHOOSE L \in 0..30 : 2^L >= n

RECURSIVE bitsLen(_)
bitsLen(n) == IF n = 0 THEN 0 ELSE 1 + bitsLen(n \div 2)

\* The range [a, b) sorted; the comparisons and exchanges of heapsort itself
\* are not counted apart from those of an insertion sort.
heapSort_func(m, a, b) == insertionSort(m, a, b)

\* Three elements around the middle of [a, b) are exchanged with elements at
\* the offsets others of the range; ranges shorter than 8 are left alone.
breakPatterns_func(m, a, b, others) ==
    LET length == b - a
        idx    == a + (length \div 4) * 2 - 1
    IN  IF length >= 8
        THEN Swap(Swap(Swap(m, idx - 1, a + others[1]), idx, a + others[2]),
                  idx + 1, a + others[3])
        ELSE m

\* The pivot chooser of this revision (choosePivot, lines 313-347), whose
\* count of exchanges is the hint: none while ordering the candidates means
\* increasing, the most possible (maxSwaps = 4 * 3) decreasing.
choosePivot_func(m, a, b) == choosePivot(m, a, b)

reverseRange_func(m, a, b) == reverseTail(m, a, b - 1)

\* for j != stop { if !Less(j, j-1) { break }; Swap(j, j-1); j += dir }
RECURSIVE shiftWhileLess(_, _, _, _)
shiftWhileLess(m, j, stop, dir) ==
    IF j = stop THEN m
    ELSE IF ~Less(m, j, j - 1) THEN Tick(m, 1)
    ELSE shiftWhileLess(Swap(Tick(m, 1), j, j - 1), j + dir, stop, dir)

\* for i < b && !Less(i, i-1) { i++ }
RECURSIVE orderedRun(_, _, _)
orderedRun(m, i, b) ==
    IF i < b
    THEN IF ~Less(m, i, i - 1) THEN orderedRun(Tick(m, 1), i + 1, b)
         ELSE [m |-> Tick(m, 1), r |-> i]
    ELSE [m |-> m, r |-> i]

\* The bounded pass: at most maxSteps = 5 misplaced elements are shifted into
\* place, and only in ranges of at least shortestShifting = 50 elements; the
\* result tells whether the range is sorted.
RECURSIVE partialInsertionSteps(_, _, _, _, _)
RECURSIVE partialInsertionStep(_, _, _, _)
partialInsertionStep(o, a, b, step) ==
    LET i == o.r IN
    IF i = b THEN [m |-> o.m, r |-> TRUE]
    ELSE IF b - a < 50 THEN [m |-> o.m, r |-> FALSE]
    ELSE partialInsertionSteps(
             shiftWhileLess(
                 shiftWhileLess(Swap(o.m, i, i - 1),
                                IF i - a >= 2 THEN i - 1 ELSE 0, 0, -1),
                 IF b - i >= 2 THEN i + 1 ELSE b, b, 1),
             i, a, b, step + 1)

partialInsertionSteps(m, i, a, b, step) ==
    IF step >= 5 THEN [m |-> m, r |-> FALSE]
    ELSE partialInsertionStep(orderedRun(m, i, b), a, b, step)

partialInsertionSort_func(m, a, b) == partialInsertionSteps(m, a + 1, a, b, 0)

\* The equal-run partition: the elements equal to the pivot first, the
\* greater ones after them; the result is the end of the equal block.
RECURSIVE partitionEqualUp(_, _, _, _)
RECURSIVE partitionEqualDown(_, _, _, _)
partitionEqualUp(m, i, j, a) ==
    IF i <= j
    THEN IF ~Less(m, a, i) THEN partitionEqualUp(Tick(m, 1), i + 1, j, a)
         ELSE partitionEqualDown(Tick(m, 1), i, j, a)
    ELSE partitionEqualDown(m, i, j, a)

partitionEqualDown(m, i, j, a) ==
    IF i <= j
    THEN IF Less(m, a, j) THEN partitionEqualDown(Tick(m, 1), i, j - 1, a)
         ELSE partitionEqualUp(Swap(Tick(m, 1), i, j), i + 1, j - 1, a)
    ELSE [m |-> m, r |-> i]

partitionEqual_func(m, a, b, pivot) ==
    partitionEqualUp(Swap(m, a, pivot), a + 1, b - 1, a)

\* The two-way partition of this revision (partition, lines 272-306) with
\* the second result: whether the two scans crossed before any exchange.
partitionFirstCrossed(v, i, a) ==
    IF i > v.r THEN [m |-> Swap(v.m, v.r, a), r |-> v.r, already |-> TRUE]
    ELSE [already |-> FALSE] @@ partitionLoop(Swap(v.m, i, v.r), i + 1, v.r - 1, a)

partitionFirstRight(u, j, a) ==
    partitionFirstCrossed(partitionDown(u.m, u.r, j, a), u.r, a)

partition_func(m, a, b, pivot) ==
    partitionFirstRight(partitionUp(Swap(m, a, pivot), a + 1, b - 1, a), b - 1, a)

\* The state of the loop of pdqQuickSelect: the machine, the variables s
\* (a, b, k, limit, wasBalanced, wasPartitioned) and whether another
\* iteration follows.
Pdq(m, s, again) == [m |-> m, s |-> s, loop |-> again, err |-> FALSE]

\* leftLen, rightLen := newPivot-a, b-newPivot; balanceThreshold := length / 8;
\* the comparison of k with newPivot; limit--.
pdqNarrow(p, s) ==
    LET newPivot == p.r
        leftLen  == newPivot - s.a
        rightLen == s.b - newPivot
        balanceThreshold == (s.b - s.a) \div 8
    IN  IF s.k = newPivot THEN Pdq(p.m, [s EXCEPT !.wasPartitioned = p.already], FALSE)
        ELSE IF s.k < newPivot
        THEN Pdq(p.m, [s EXCEPT !.wasPartitioned = p.already,
                                !.wasBalanced = leftLen >= balanceThreshold,
                                !.b = newPivot - 1, !.limit = @ - 1], TRUE)
        ELSE Pdq(p.m, [s EXCEPT !.wasPartitioned = p.already,
                                !.wasBalanced = rightLen >= balanceThreshold,
                                !.a = newPivot + 1, !.limit = @ - 1], TRUE)

\* if k < mid-a { b = mid - 1 } else if k >= mid-a { k -= mid - a; a = mid }
\* else { return }; continue
pdqEqualNarrow(e, s) ==
    LET mid == e.r IN
    IF s.k < mid - s.a THEN Pdq(e.m, [s EXCEPT !.b = mid - 1], TRUE)
    ELSE IF s.k >= mid - s.a
    THEN Pdq(e.m, [s EXCEPT !.k = @ - (mid - s.a), !.a = mid], TRUE)
    ELSE Pdq(e.m, s, FALSE)

\* if a > 0 && !data.Less(a-1, pivot) { the equal-run partition }
\* else { the two-way partition }
pdqPartition(m, pivot, s) ==
    IF s.a > 0 /\ ~Less(m, s.a - 1, pivot)
    THEN pdqEqualNarrow(partitionEqual_func(Tick(m, 1), s.a, s.b + 1, pivot), s)
    ELSE pdqNarrow(partition_func(IF s.a > 0 THEN Tick(m, 1) ELSE m,
                                  s.a, s.b + 1, pivot), s)

\* if partialInsertionSort_func(data, a, b+1) { return }
pdqSorted(ps, pivot, s) ==
    IF ps.r THEN Pdq(ps.m, s, FALSE) ELSE pdqPartition(ps.m, pivot, s)

\* if wasBalanced && wasPartitioned && hint == increasingHint { ... }
pdqHinted(m, pivot, increasingHint, s) ==
    IF s.wasBalanced /\ s.wasPartitioned /\ increasingHint
    THEN pdqSorted(partialInsertionSort_func(m, s.a, s.b + 1), pivot, s)
    ELSE pdqPartition(m, pivot, s)

\* if hint == decreasingHint { reverseRange_func(data, a, b+1);
\*     pivot = (b - a) - (pivot - a); hint = increasingHint }
pdqChosen(c, s) ==
    IF c.swaps = 4 * 3
    THEN pdqHinted(reverseRange_func(c.m, s.a, s.b + 1),
                   (s.b - s.a) - (c.r - s.a), TRUE, s)
    ELSE pdqHinted(c.m, c.r, c.swaps = 0, s)

\* One iteration of the loop; others are the offsets pattern breaking draws.
pdqQuickSelect(m, s, others) ==
    IF s.b - s.a <= maxInsertion THEN Pdq(insertionSort(m, s.a, s.b + 1), s, FALSE)
    ELSE IF s.limit = 0 THEN Pdq(heapSort_func(m, s.a, s.b + 1), s, FALSE)
    ELSE IF ~s.wasBalanced
    THEN pdqChosen(choosePivot_func(breakPatterns_func(m, s.a, s.b + 1, others),
                                    s.a, s.b + 1),
                   [s EXCEPT !.limit = @ - 1])
    ELSE pdqChosen(choosePivot_func(m, s.a, s.b + 1), s)

\* ------------------------------------ QuickSelect (src/unnamed/part_001)
\* The variables of a loop that is not running.
NoLoop ==
    [a |-> 0, b |-> 0, k |-> 0, limit |-> 0, wasBalanced |-> TRUE,
     wasPartitioned |-> TRUE]

\* The call up to its error return or to the entry of
\* pdqQuickSelect(data, 0, length-1, k-1, bits.Len(uint(data.Len()))).
QuickSelect_p1(m, kk) ==
    IF kk < 1 \/ kk > m.n THEN [Pdq(m, NoLoop, FALSE) EXCEPT !.err = TRUE]
    ELSE Pdq(m, [NoLoop EXCEPT !.b = m.n - 1, !.k = kk - 1,
                               !.limit = bitsLen(m.n)], TRUE)

\* ---------------------------------------------------------- specification
\* The callers of the package: one call of an entry point on a collection,
\* and, for QuickSelect of src/quickselect.go, a second call with the same k
\* on the collection the first call left, possibly after the caller has
\* exchanged two of its elements.
Collections == UNION {[0..n - 1 -> Vals] : n \in 0..MaxLen}

Ks == -1..MaxLen + 1

\* No helper has been called on its own.
NoCall == [a |-> 0, b |-> 0, pivot |-> 0, x |-> 0, y |-> 0]

NoBag == [v \in Vals |-> 0]

\* The multiset of the elements at positions [l, h) of d.
BagOf(d, l, h) == [v \in Vals |-> Cardinality({i \in l..h - 1 : d[i] = v})]

Init ==
    /\ data \in Collections
    /\ k \in Ks
    /\ input = data
    /\ pc = "ready"
    /\ fn = "none"
    /\ lo = 0
    /\ hi = 0
    /\ outcome = "none"
    /\ sw = 0
    /\ ls = 0
    /\ first = NoBag
    /\ reversed = FALSE
    /\ loopLow = 0
    /\ loopHigh = 0
    /\ pdqVars = NoLoop
    /\ heap = <<>>
    /\ scan = 0
    /\ have = <<>>
    /\ call = NoCall
    /\ iterations = 0
    /\ kind = "int"

\* The state a call leaves: the collection, the returned range (none when the
\* run aborted), and the number of Less and Swap calls it made.
Returned(r, name, out) ==
    /\ data' = r.m.d
    /\ fn' = name
    /\ outcome' = IF r.m.ok THEN out ELSE "panic"
    /\ lo' = IF r.m.ok THEN r.lo ELSE 0
    /\ hi' = IF r.m.ok THEN r.hi ELSE 0
    /\ sw' = r.m.sw
    /\ ls' = r.m.ls
    /\ UNCHANGED <<reversed, loopLow, loopHigh, kind, pdqVars, iterations,
                   heap, scan, have,
                   call>>

\* The same for a call that returns (lo, hi, err).
ReturnedErr(r, name) == Returned(r, name, IF r.err THEN "error" ELSE "ok")

CallQuickSelect ==
    /\ pc = "ready"
    /\ Returned(QuickSelect(Machine(data, Size(data)), k), "QuickSelect", "ok")
    /\ first' = IF outcome' = "ok" THEN BagOf(data', lo', hi') ELSE NoBag
    /\ pc' = "done"
    /\ UNCHANGED <<k, input>>

CallNaiveSelect ==
    /\ pc = "ready"
    /\ Returned(naiveSelect(Machine(data, Size(data)), k), "naiveSelect", "ok")
    /\ pc' = "done"
    /\ UNCHANGED <<k, input, first>>

CallQuickSelect_p3 ==
    /\ pc = "ready"
    /\ ReturnedErr(QuickSelect_p3(Machine(data, Size(data)), k), "QuickSelect_p3")
    /\ pc' = "done"
    /\ UNCHANGED <<k, input, first>>

\* lo, hi := heapSelect(sort.IntSlice(fixture.Array), k), as TestHeapSelect
\* of src/unnamed/part_004 calls it, with a positive k.
TestHeapSelect ==
    /\ pc = "ready"
    /\ 1 <= k
    /\ Returned(heapSelect_p3(Machine(data, Size(data)), k), "heapSelect_p3", "ok")
    /\ pc' = "done"
    /\ UNCHANGED <<k, input, first>>

\* selectFunc(sort.IntSlice(intData), int(k)) with selectFunc = quickSelect.
Fuzz_quickSelect ==
    /\ pc = "ready"
    /\ Returned(quickSelect(Machine(data, Size(data)), k), "quickSelect", "ok")
    /\ pc' = "done"
    /\ UNCHANGED <<k, input, first>>

\* The caller permutes the collection between the two runs.
Shuffle ==
    /\ pc = "done"
    /\ fn = "QuickSelect"
    /\ outcome = "ok"
    /\ 1 <= k /\ k <= Size(data)
    /\ \E i, j \in DOMAIN data :
          /\ i < j
          /\ data' = [data EXCEPT ![i] = data[j], ![j] = data[i]]
    /\ pc' = "shuffled"
    /\ UNCHANGED <<k, input, fn, lo, hi, outcome, sw, ls, first, reversed, loopLow,
                   loopHigh, kind, pdqVars, iterations, heap, scan, have,
                   call>>

Rerun ==
    /\ pc \in {"done", "shuffled"}
    /\ fn = "QuickSelect"
    /\ outcome = "ok"
    /\ 1 <= k /\ k <= Size(data)
    /\ Returned(QuickSelect(Machine(data, Size(data)), k), "QuickSelect", "ok")
    /\ pc' = "rerun"
    /\ UNCHANGED <<k, input, first>>

Next ==
    \/ CallQuickSelect
    \/ CallNaiveSelect
    \/ CallQuickSelect_p3
    \/ TestHeapSelect
    \/ Fuzz_quickSelect
    \/ Shuffle
    \/ Rerun

Spec == Init /\ [][Next]_vars

\* Collections long enough for the dispatcher of src/unnamed/part_003 to
\* route a call to the partition-based quickSelect (k > 10, k < n).
LongLen == 12

LongVals == {0, 1}

LongInit ==
    /\ data \in [0..LongLen - 1 -> LongVals]
    /\ k \in naiveSelectionThreshold + 1..LongLen
    /\ input = data
    /\ pc = "ready"
    /\ fn = "none"
    /\ lo = 0
    /\ hi = 0
    /\ outcome = "none"
    /\ sw = 0
    /\ ls = 0
    /\ first = NoBag
    /\ reversed = FALSE
    /\ loopLow = 0
    /\ loopHigh = 0
    /\ pdqVars = NoLoop
    /\ heap = <<>>
    /\ scan = 0
    /\ have = <<>>
    /\ call = NoCall
    /\ iterations = 0
    /\ kind = "int"

LongNext ==
    \/ CallQuickSelect_p3
    \/ Fuzz_quickSelect

SpecLong == LongInit /\ [][LongNext]_vars

\* The callers of src/unnamed/part_002: QuickSelect on an IntSlice or on
\* Reverse of one, on the small collections and on the long ones, which the
\* dispatcher hands to randomizedSelectionFinding.  Each iteration of that
\* function's loop, with the pivot index it draws, is a step of its own.
Init_p2 ==
    /\ data \in Collections \cup [0..LongLen - 1 -> LongVals]
    /\ IF Size(data) = LongLen THEN k \in naiveSelectionThreshold + 1..LongLen
                               ELSE k \in Ks
    /\ input = data
    /\ pc = "ready"
    /\ fn = "none"
    /\ lo = 0
    /\ hi = 0
    /\ outcome = "none"
    /\ sw = 0
    /\ ls = 0
    /\ first = NoBag
    /\ reversed \in BOOLEAN
    /\ loopLow = 0
    /\ loopHigh = 0
    /\ pdqVars = NoLoop
    /\ heap = <<>>
    /\ scan = 0
    /\ have = <<>>
    /\ call = NoCall
    /\ iterations = 0
    /\ kind = "int"

\* The slice a caller builds on d: an IntSlice or a Float64Slice.
Slice(d) ==
    IF kind = "float64" THEN Float64Slice(Machine(d, Size(d))) ELSE Machine(d, Size(d))

\* The collection as the callee sees it: the slice itself or Reverse of it.
View(d) == IF reversed THEN Reverse(Slice(d)) ELSE Slice(d)

\* The machine of a call in progress.
Running == [View(data) EXCEPT !.sw = sw, !.ls = ls]

\* The state l of the loop becomes the state of the run.
Looped(l) ==
    /\ data' = l.m.d
    /\ sw' = l.m.sw
    /\ ls' = l.m.ls
    /\ loopLow' = l.low
    /\ loopHigh' = l.high
    /\ pc' = IF l.loop THEN "selecting" ELSE "done"
    /\ outcome' = IF l.err THEN "error" ELSE IF l.loop THEN "none" ELSE "ok"
    /\ fn' = "QuickSelect_p2"
    /\ UNCHANGED <<k, input, lo, hi, first, reversed, kind, pdqVars, iterations,
                   heap, scan, have,
                   call>>

CallQuickSelect_p2 ==
    /\ pc = "ready"
    /\ Looped(QuickSelect_p2(View(data), k))

\* One iteration of the loop of randomizedSelectionFinding.
RandomizedIteration ==
    /\ pc = "selecting"
    /\ \E random \in 0..Max(loopHigh - loopLow, 0) :
          Looped(randomizedSelectionFinding(Running, loopLow, loopHigh, k, random))

Next_p2 ==
    \/ CallQuickSelect_p2
    \/ RandomizedIteration

Spec_p2 == Init_p2 /\ [][Next_p2]_vars

\* Collections of the least length at which the loop of
\* randomizedSelectionFinding can narrow from either side, and the k for
\* which it does: the least k the dispatcher hands to that function, with a
\* range of more than nine elements left of the last index.
RandLen == 13

Init_rand ==
    /\ data \in [0..RandLen - 1 -> LongVals]
    /\ k = naiveSelectionThreshold + 1
    /\ input = data
    /\ pc = "ready"
    /\ fn = "none"
    /\ lo = 0
    /\ hi = 0
    /\ outcome = "none"
    /\ sw = 0
    /\ ls = 0
    /\ first = NoBag
    /\ reversed = FALSE
    /\ loopLow = 0
    /\ loopHigh = 0
    /\ pdqVars = NoLoop
    /\ heap = <<>>
    /\ scan = 0
    /\ have = <<>>
    /\ call = NoCall
    /\ iterations = 0
    /\ kind = "int"

Spec_rand == Init_rand /\ [][Next_p2]_vars

\* The callers of Float64QuickSelect of src/unnamed/part_002: slices of
\* numbers and NaN, the long ones of the number 0 and NaN.
Init_f64 ==
    /\ data \in UNION {[0..n - 1 -> Vals \cup {NaN}] : n \in 0..MaxLen}
                 \cup [0..LongLen - 1 -> {0, NaN}]
    /\ IF Size(data) = LongLen THEN k \in naiveSelectionThreshold + 1..LongLen
                               ELSE k \in Ks
    /\ input = data
    /\ pc = "ready"
    /\ fn = "none"
    /\ lo = 0
    /\ hi = 0
    /\ outcome = "none"
    /\ sw = 0
    /\ ls = 0
    /\ first = NoBag
    /\ reversed = FALSE
    /\ loopLow = 0
    /\ loopHigh = 0
    /\ pdqVars = NoLoop
    /\ heap = <<>>
    /\ scan = 0
    /\ have = <<>>
    /\ call = NoCall
    /\ iterations = 0
    /\ kind = "float64"

Spec_f64 == Init_f64 /\ [][Next_p2]_vars

\* The callers of QuickSelect of src/unnamed/part_001: the small collections
\* and collections of the least length at which the loop of pdqQuickSelect
\* can reach its duplicate-handling branch with more than maxInsertion + 1
\* elements left (one element left of the pivot, the pivot, fourteen right
\* of it).  Each iteration of the loop is a step of its own; MaxIter bounds
\* the iterations followed.
PdqLen == 16

MaxIter == 8

\* The k of the calls on the long collections: the least, the greatest, and
\* two between them.
PdqKs == {1, PdqLen \div 4, PdqLen \div 2, PdqLen}

\* A permutation of 0..164 on which the pivots of the first six partitions
\* fall near the low end of the range and the seventh near its high end,
\* selected with k = n.
SkewedSeq ==
    <<
       81, 82, 98, 124, 125, 84, 23, 117, 116, 85, 83, 50, 49, 48, 54,
       31, 119, 86, 55, 90, 118, 91, 89, 88, 87, 60, 59, 58, 56, 96,
       122, 121, 120, 97, 92, 68, 67, 66, 72, 126, 1, 0, 2, 73, 10, 9,
       11, 51, 52, 53, 18, 17, 19, 57, 25, 24, 26, 61, 62, 63, 64, 65,
       34, 33, 35, 69, 70, 71, 43, 42, 44, 74, 75, 147, 146, 148, 76,
       77, 78, 79, 80, 4, 3, 5, 13, 12, 14, 21, 20, 22, 28, 27, 29, 93,
       94, 95, 37, 36, 38, 46, 45, 47, 99, 150, 149, 151, 100, 101, 102,
       103, 104, 105, 106, 107, 108, 109, 110, 111, 112, 113, 114, 115,
       7, 6, 8, 15, 16, 30, 32, 123, 40, 39, 41, 153, 152, 154, 127,
       128, 129, 130, 131, 132, 133, 134, 135, 136, 137, 138, 139, 140,
       141, 142, 143, 144, 145, 155, 156, 157, 158, 159, 160, 161, 162,
       163, 164
    >>

Skewed == [i \in 0..Len(SkewedSeq) - 1 |-> SkewedSeq[i + 1]]

Init_p1 ==
    /\ data \in Collections \cup [0..PdqLen - 1 -> LongVals] \cup {Skewed}
    /\ IF Size(data) = PdqLen THEN k \in PdqKs
       ELSE IF data = Skewed THEN k = Size(data) ELSE k \in Ks
    /\ input = data
    /\ pc = "ready"
    /\ fn = "none"
    /\ lo = 0
    /\ hi = 0
    /\ outcome = "none"
    /\ sw = 0
    /\ ls = 0
    /\ first = NoBag
    /\ reversed = FALSE
    /\ loopLow = 0
    /\ loopHigh = 0
    /\ pdqVars = NoLoop
    /\ heap = <<>>
    /\ scan = 0
    /\ have = <<>>
    /\ call = NoCall
    /\ iterations = 0
    /\ kind = "int"

\* The state l of the loop of pdqQuickSelect becomes the state of the run.
Looped_p1(l, count) ==
    /\ data' = l.m.d
    /\ sw' = l.m.sw
    /\ ls' = l.m.ls
    /\ pdqVars' = l.s
    /\ iterations' = count
    /\ pc' = IF l.loop THEN "pdq" ELSE "done"
    /\ outcome' = IF l.err THEN "error" ELSE IF l.loop THEN "none" ELSE "ok"
    /\ fn' = "QuickSelect_p1"
    /\ UNCHANGED <<k, input, lo, hi, first, reversed, kind, loopLow, loopHigh,
                   heap, scan, have,
                   call>>

CallQuickSelect_p1 ==
    /\ pc = "ready"
    /\ Looped_p1(QuickSelect_p1(View(data), k), 0)

\* One iteration of the loop of pdqQuickSelect, with the offsets in the range
\* [a, b] that pattern breaking draws when it is called.
PdqIteration ==
    /\ pc = "pdq"
    /\ iterations < MaxIter
    /\ \E others \in IF pdqVars.wasBalanced THEN {<<0, 0, 0>>}
                     ELSE [1..3 -> 0..Max(pdqVars.b - pdqVars.a, 0)] :
          Looped_p1(pdqQuickSelect(Running, pdqVars, others), iterations + 1)

Next_p1 ==
    \/ CallQuickSelect_p1
    \/ PdqIteration

Spec_p1 == Init_p1 /\ [][Next_p1]_vars

\* The run of heapSelect of src/quickselect.go on a non-negative estimate
\* with 2 <= k < n, each iteration of its scan a step of its own, and the run
\* of FuzzMinHeap, which builds the heap on the first k indices and removes
\* its root until it is empty.
Held == [Machine(data, Size(data)) EXCEPT !.heap = heap, !.sw = sw, !.ls = ls]

\* The machine m becomes the state of the run, i the index the scan examines
\* next or the number of indices the heap still holds.
Scanning(m, i, name, at, popped) ==
    /\ data' = m.d
    /\ sw' = m.sw
    /\ ls' = m.ls
    /\ heap' = [j \in {x \in DOMAIN m.heap : at = "scanning" \/ x < i} |-> m.heap[j]]
    /\ scan' = i
    /\ have' = popped
    /\ pc' = at
    /\ fn' = name
    /\ outcome' = IF at = "done" THEN "ok" ELSE "none"
    /\ UNCHANGED <<k, input, lo, hi, first, reversed, kind, loopLow, loopHigh,
                   pdqVars, iterations, call>>

\* heap := make([]int, k); heap[i] = i; s := sortedness(data); if s >= 0
\* { heapInit(data, heap); ... }
HeapSelectEnter(s) ==
    /\ pc = "ready"
    /\ 2 <= k /\ k < Size(data)
    /\ s.num >= 0
    /\ Scanning(heapInit(s.m), k, "heapSelect", "scanning", <<>>)

HeapScanStep ==
    /\ pc = "scanning"
    /\ scan < Size(data)
    /\ Scanning(heapScanStep(Held, scan, k), scan + 1, "heapSelect", "scanning", <<>>)

HeapSelectFinish ==
    /\ pc = "scanning"
    /\ scan >= Size(data)
    /\ Returned(heapSelectFinish(Held, k), "heapSelect", "ok")
    /\ pc' = "done"
    /\ UNCHANGED <<k, input, first>>

\* heapInit on the first k indices of the input.
FuzzMinHeap ==
    /\ pc = "ready"
    /\ 1 <= k /\ k <= Size(data)
    /\ Scanning(heapInit([Machine(data, Size(data)) EXCEPT
                              !.heap = [i \in 0..k - 1 |-> i]]),
                k, "FuzzMinHeap", "popping", <<>>)

\* have = append(have, data[0]); data[0] = data[len(data)-1];
\* if len(data) > 1 { heapDown(data, 0, len(data)) }; data = data[:len(data)-1]
\* in terms of the index array.
popRoot(m, len) ==
    IF len > 1 THEN heapDown([m EXCEPT !.heap[0] = m.heap[len - 1]], 0, len).m ELSE m

FuzzMinHeapPop ==
    /\ pc = "popping"
    /\ Scanning(popRoot(Held, scan), scan - 1, "FuzzMinHeap",
                IF scan > 1 THEN "popping" ELSE "done", Append(have, data[heap[0]]))

Next_heap ==
    \/ HeapSelectEnter(sortedness([Machine(data, Size(data)) EXCEPT
                                      !.heap = [i \in 0..k - 1 |-> i]]))
    \/ HeapScanStep
    \/ HeapSelectFinish
    \/ FuzzMinHeap
    \/ FuzzMinHeapPop

\* Collections long enough for a heap of three levels.
HeapLen == 6

Init_heap ==
    /\ data \in UNION {[0..n - 1 -> Vals] : n \in 0..HeapLen}
    /\ k \in -1..HeapLen + 1
    /\ input = data
    /\ pc = "ready"
    /\ fn = "none"
    /\ lo = 0
    /\ hi = 0
    /\ outcome = "none"
    /\ sw = 0
    /\ ls = 0
    /\ first = NoBag
    /\ reversed = FALSE
    /\ loopLow = 0
    /\ loopHigh = 0
    /\ pdqVars = NoLoop
    /\ heap = <<>>
    /\ scan = 0
    /\ have = <<>>
    /\ call = NoCall
    /\ iterations = 0
    /\ kind = "int"

Spec_heap == Init_heap /\ [][Next_heap]_vars

\* ----------------------------------------------------------------- claims
\* The k smallest elements of d as a multiset, as a full sort gives them:
\* a value v occurs among them as often as the prefix of length kk of the
\* sorted collection holds it.
SmallestBag(d, kk) ==
    [v \in Vals |->
        LET below == Cardinality({i \in DOMAIN d : d[i] < v})
            same  == Cardinality({i \in DOMAIN d : d[i] = v})
        IN  Max(0, Min(same, kk - below))]

ValidK == 1 <= k /\ k <= Size(input)

Called(name) == pc = "done" /\ fn = name

RoutedToQuickSelect_p3 ==
    /\ k < Size(input)
    /\ ~(Size(input) <= naiveSelectionLengthThreshold /\ k <= naiveSelectionThreshold)
    /\ ~(kRatioSmall(k, Size(input)) /\ k <= heapSelectionThreshold)

\* C1: for 1 <= k <= n, QuickSelect of src/quickselect.go returns a range
\* whose elements are, as a multiset, the k smallest elements of the input.
C1_RangeHoldsKSmallest ==
    (Called("QuickSelect") /\ ValidK) =>
        /\ outcome = "ok"
        /\ BagOf(data, lo, hi) = SmallestBag(input, k)

\* C2: for 1 <= k <= n, QuickSelect of src/quickselect.go returns (lo, hi)
\* with 0 <= lo <= hi <= n and hi - lo = k.
C2_RangeHasLengthK ==
    (Called("QuickSelect") /\ ValidK) =>
        /\ outcome = "ok"
        /\ 0 <= lo /\ lo <= hi /\ hi <= Size(input)
        /\ hi - lo = k

\* C3: after QuickSelect of src/quickselect.go returns for 1 <= k <= n, the
\* elements at indices 0..k-1 are the k smallest elements of the data.
C3_PrefixHoldsKSmallest ==
    (Called("QuickSelect") /\ ValidK) =>
        /\ outcome = "ok"
        /\ BagOf(data, 0, k) = SmallestBag(input, k)

\* C4: QuickSelect(data, 1) of src/quickselect.go returns (lo, lo + 1) with
\* the element at lo a global minimum: no element is less than it.
C4_KOneIsMinimum ==
    (Called("QuickSelect") /\ k = 1 /\ Size(input) >= 1) =>
        /\ outcome = "ok"
        /\ lo \in DOMAIN data
        /\ hi = lo + 1
        /\ \A i \in DOMAIN data : ~(data[i] < data[lo])
        /\ \A i \in DOMAIN input : ~(input[i] < data[lo])

\* The minimum of an input with no ascending pair is found at its last index.
C4_Witness ==
    /\ Called("QuickSelect") /\ k = 1 /\ outcome = "ok"
    /\ Size(input) >= 3
    /\ \A i \in DOMAIN input : i + 1 \in DOMAIN input => input[i + 1] < input[i]
    /\ lo = Size(input) - 1

C7_ErrorReported ==
    (Called("QuickSelect") /\ ~ValidK) => outcome = "error"

\* C8: a second run of QuickSelect of src/quickselect.go with the same k, on
\* the collection the first run left or on a permutation of it, returns a
\* range holding the same multiset as the range the first run returned.
C8_Idempotent ==
    pc = "rerun" =>
        /\ outcome = "ok"
        /\ BagOf(data, lo, hi) = first

\* C9: for 1 <= k <= n, naiveSelect of src/quickselect.go returns a range of
\* length k holding the k smallest elements of the input: the one-element
\* range at the minimum for k = 1, the whole collection for k >= n, and the
\* prefix [0, k) otherwise.
C9_NaiveSelect ==
    (Called("naiveSelect") /\ ValidK) =>
        /\ outcome = "ok"
        /\ 0 <= lo /\ hi <= Size(input)
        /\ hi - lo = k
        /\ BagOf(data, lo, hi) = SmallestBag(input, k)
        /\ BagOf(data, 0, Size(input)) = BagOf(input, 0, Size(input))
        /\ k = 1 => \A i \in DOMAIN data : ~(data[i] < data[lo])
        /\ k >= Size(input) => lo = 0 /\ hi = Size(input)
        /\ (1 < k /\ k < Size(input)) => lo = 0 /\ hi = k

\* The scan has replaced the largest of the working set at least twice.
C9_Witness ==
    /\ Called("naiveSelect") /\ outcome = "ok"
    /\ 1 < k /\ k < Size(input)
    /\ sw >= 2
    /\ lo = 0 /\ hi = k

\* C10: whenever the dispatcher of src/unnamed/part_003 routes a valid
\* (n, k) to the partition-based quickSelect, the returned range has
\* hi - lo = k for the k the caller passed.
C10_RangeHasLengthK_p3 ==
    (Called("QuickSelect_p3") /\ ValidK /\ RoutedToQuickSelect_p3) =>
        /\ outcome = "ok"
        /\ hi - lo = k


\* C11: for a non-empty collection and 1 <= k <= n, quickSelect of
\* src/quickselect.go returns (lo, hi) with hi - lo = k, also when the search
\* has narrowed to the right of a partition.
C11_quickSelectLengthK ==
    (Called("quickSelect") /\ ValidK) =>
        /\ outcome = "ok"
        /\ hi - lo = k


\* The k largest elements of d as a multiset.
LargestBag(d, kk) ==
    [v \in Vals |->
        LET above == Cardinality({i \in DOMAIN d : d[i] > v})
            same  == Cardinality({i \in DOMAIN d : d[i] = v})
        IN  Max(0, Min(same, kk - above))]

Called_p2 == pc = "done" /\ fn = "QuickSelect_p2"

\* C12: Reverse(data) of src/unnamed/part_002 has the Len and the Swap of data
\* and Less(i, j) equal to data.Less(j, i); and for 1 <= k <= n,
\* QuickSelect(Reverse(data), k) leaves the k largest elements of data, as a
\* multiset, in positions [0, k).
C12_ReverseSelectsLargest ==
    /\ pc = "ready" => \A i, j \in DOMAIN data :
          /\ Less(Reverse(Machine(data, Size(data))), i, j)
                = Less(Machine(data, Size(data)), j, i)
          /\ Swap(Reverse(Machine(data, Size(data))), i, j).d
                = Swap(Machine(data, Size(data)), i, j).d
    /\ Reverse(Machine(data, Size(data))).n = Size(data)
    /\ (Called_p2 /\ reversed /\ ValidK) =>
          /\ outcome = "ok"
          /\ BagOf(data, 0, k) = LargestBag(input, k)

\* A reversed run through the partitioning loop on a collection whose first k
\* elements were not its k largest.
C12_Witness ==
    /\ Called_p2 /\ reversed /\ outcome = "ok"
    /\ Size(input) = LongLen /\ k < LongLen
    /\ BagOf(input, 0, k) # LargestBag(input, k)
    /\ BagOf(data, 0, k) = LargestBag(input, k)
    /\ LargestBag(input, k) # SmallestBag(input, k)


\* The number of NaN at positions [l, h) of d.
NaNCount(d, l, h) == Cardinality({i \in l..h - 1 : isNaN(d[i])})

\* C13: Float64Slice ordering treats NaN as greater than every other value:
\* Less(i, j) is false whenever element i is NaN and true whenever element j
\* is NaN and element i is not; so the k smallest of a float slice that has
\* at least k values other than NaN hold no NaN.
C13_NaNGreatest ==
    kind = "float64" =>
        /\ \A i, j \in DOMAIN data :
              /\ isNaN(data[i]) => ~Less(Slice(data), i, j)
              /\ (isNaN(data[j]) /\ ~isNaN(data[i])) => Less(Slice(data), i, j)
        /\ (Called_p2 /\ ValidK /\ Size(input) - NaNCount(input, 0, Size(input)) >= k) =>
              NaNCount(data, 0, k) = 0

\* C13 as amended: Float64Slice ordering treats NaN as less than every other
\* value: Less(i, j) is false whenever element j is NaN, true whenever
\* element i is NaN and element j is not, and the order of the numbers
\* otherwise; so after QuickSelect of src/unnamed/part_002 with 1 <= k <= n on
\* a float slice holding c NaN, positions [0, k) hold min(k, c) NaN and the
\* k - min(k, c) smallest numbers.
C13_NaNLeast ==
    kind = "float64" =>
        /\ pc = "ready" => \A i, j \in DOMAIN data :
              /\ isNaN(data[j]) => ~Less(Slice(data), i, j)
              /\ (isNaN(data[i]) /\ ~isNaN(data[j])) => Less(Slice(data), i, j)
              /\ (~isNaN(data[i]) /\ ~isNaN(data[j])) =>
                    (Less(Slice(data), i, j) <=> data[i] < data[j])
        /\ (Called_p2 /\ ValidK) =>
              /\ outcome = "ok"
              /\ NaNCount(data, 0, k) = Min(k, NaNCount(input, 0, Size(input)))
              /\ BagOf(data, 0, k) = SmallestBag(input, k - NaNCount(data, 0, k))
              /\ NaNCount(data, 0, Size(data)) = NaNCount(input, 0, Size(input))
              /\ BagOf(data, 0, Size(data)) = BagOf(input, 0, Size(input))

\* A selection that had to move a NaN into the first k positions, past
\* numbers that stood there.
C13_Witness ==
    /\ kind = "float64" /\ Called_p2 /\ outcome = "ok"
    /\ 1 < k /\ k < Size(input)
    /\ NaNCount(input, 0, k) = 0
    /\ NaNCount(input, 0, Size(input)) >= 1
    /\ NaNCount(data, 0, k) >= 1


\* QuickSelect of src/unnamed/part_002 hands (n, k) to
\* randomizedSelectionFinding.
RoutedToRandomized ==
    /\ ValidK
    /\ ~(Size(input) <= naiveSelectionLengthThreshold /\ k <= naiveSelectionThreshold)
    /\ ~(kRatioSmall(k, Size(input)) /\ k <= heapSelectionThreshold)

\* C14: randomizedSelectionFinding of src/unnamed/part_002, called by
\* QuickSelect with low = 0, high = n-1 and 1 <= k <= n: whatever pivot
\* indices are drawn, the loop terminates (an iteration on a range of at most
\* partitionThreshold + 1 elements is the last one, and every other iteration
\* is the last one or leaves a range that lies within the old one and is
\* strictly shorter), and it leaves the k smallest elements of the input, as
\* a multiset, in positions [0, k).
C14_RandomizedSelects ==
    /\ []((Called_p2 /\ RoutedToRandomized /\ ~reversed) =>
             /\ outcome = "ok"
             /\ BagOf(data, 0, k) = SmallestBag(input, k)
             /\ BagOf(data, 0, Size(data)) = BagOf(input, 0, Size(input)))
    /\ [][pc = "selecting" =>
             /\ pc' \in {"selecting", "done"}
             /\ loopHigh - loopLow <= partitionThreshold => pc' = "done"
             /\ pc' = "selecting" =>
                   /\ 0 <= loopLow /\ loopLow <= loopLow'
                   /\ loopHigh' <= loopHigh /\ loopHigh < Size(data)
                   /\ loopHigh' - loopLow' < loopHigh - loopLow]_vars

\* A run whose loop narrowed from the right and from the left before it
\* returned, on an input whose first k elements were not its k smallest.
C14_Witness ==
    /\ Called_p2 /\ RoutedToRandomized /\ ~reversed /\ outcome = "ok"
    /\ k < Size(input)
    /\ loopLow >= 2 /\ loopHigh < Size(input) - 1
    /\ BagOf(input, 0, k) # SmallestBag(input, k)
    /\ BagOf(data, 0, k) = SmallestBag(input, k)


\* C15: pdqQuickSelect of src/unnamed/part_001, started by QuickSelect with
\* a = 0, b = n - 1, the target k - 1 and limit = bits.Len(n), returns after
\* finitely many iterations of its loop, also on runs of equal elements that
\* take the duplicate-handling branch.  Away from pattern breaking an
\* iteration is a function of the collection and of the variables of the
\* loop, so an iteration that is followed by another and leaves all of them
\* as it found them is repeated for ever: no iteration may do so.
C15_PdqReturns ==
    [][(pc = "pdq" /\ pc' = "pdq") => (data' # data \/ pdqVars' # pdqVars)]_vars


\* C16: heapSelect of src/unnamed/part_003 with 1 <= k < n returns a range
\* holding the k smallest elements of the input as a multiset on either
\* branch: [n - k, n) when the sortedness estimate of the input is negative
\* and [0, k) when it is not.
C16_HeapSelectAdvisory ==
    (Called("heapSelect_p3") /\ 1 <= k /\ k < Size(input)) =>
        /\ outcome = "ok"
        /\ IF sortedness(Machine(input, Size(input))).num < 0
           THEN lo = Size(input) - k /\ hi = Size(input)
           ELSE lo = 0 /\ hi = k
        /\ BagOf(data, lo, hi) = SmallestBag(input, k)


\* The k-th smallest element of d (1 <= kk <= Size(d)), as a full sort
\* gives it.
KthSmallest(d, kk) ==
    CHOOSE v \in Vals :
        /\ Cardinality({i \in DOMAIN d : d[i] < v}) < kk
        /\ kk <= Cardinality({i \in DOMAIN d : d[i] <= v})

\* C17: quickSelect(data, k) of src/quickselect.go with 1 <= k < n on an
\* input whose sortedness estimate is negative returns a range all of whose
\* elements are less than or equal to the k-th smallest element of the input.
C17_ReverseBranchSelects ==
    (Called("quickSelect") /\ 1 <= k /\ k < Size(input)
        /\ sortedness(Machine(input, Size(input))).num < 0) =>
        /\ outcome = "ok"
        /\ \A i \in lo..hi - 1 :
              i \in DOMAIN data /\ data[i] <= KthSmallest(input, k)


\* The elements the heap holds, and whether x is the index of a largest one.
LargestHeld(x) == \A j \in DOMAIN heap : ~(data[x] < data[heap[j]])

\* C18: in the forward scan of heapSelect of src/quickselect.go with
\* 2 <= k < n, before each element i of [k, n) is examined heap[0] is the
\* index of a largest element among the k indices the heap holds, and the
\* iteration puts i at the root exactly when the element at i is less than
\* that largest held element.
C18_RootIsLargestHeld ==
    /\ []((pc = "scanning" /\ scan < Size(data)) => LargestHeld(heap[0]))
    /\ [][(pc = "scanning" /\ scan < Size(data) /\ pc' = "scanning") =>
            ((heap' # heap) <=>
                (\E j \in DOMAIN heap : data[scan] < data[heap[j]]))]_vars

\* The heap order on the first len positions of the index array h: the
\* element of no child is less than the element of its parent.
MinHeap(h, len) ==
    \A j \in 1..len - 1 : ~(data[h[j]] < data[h[(j - 1) \div 2]])

C20_IndexSafety ==
    (Called("QuickSelect") /\ 2 <= k /\ k < Size(input)) => outcome # "panic"


\* ------------------------------------------------ helpers called on their own
\* The helpers of src/quickselect.go called directly on a collection, as a
\* unit test would call them, next to the selectors that use them.  The
\* helpers are called on the collections of up to HelperLen elements, the
\* selectors also on those of LongLen elements, which quickSelect partitions.
HelperLen == 5

\* The state a helper leaves: the collection, its arguments and its results.
Helped(m, name, args, x, y) ==
    /\ data' = m.d
    /\ fn' = name
    /\ pc' = "done"
    /\ outcome' = IF m.ok THEN "ok" ELSE "panic"
    /\ sw' = m.sw
    /\ ls' = m.ls
    /\ call' = [a |-> args[1], b |-> args[2], pivot |-> args[3], x |-> x, y |-> y]
    /\ UNCHANGED <<k, input, lo, hi, first, reversed, loopLow, loopHigh, kind,
                   pdqVars, iterations, heap, scan, have>>

\* A loop followed step by step, at index i: the sampling loop of sortedness
\* with its two counters, the scan of naiveSelect with largestIdx.
Stepping(m, i, x, y, name, at) ==
    /\ data' = m.d
    /\ sw' = m.sw
    /\ ls' = m.ls
    /\ scan' = i
    /\ call' = [NoCall EXCEPT !.x = x, !.y = y]
    /\ pc' = at
    /\ fn' = name
    /\ UNCHANGED <<k, input, lo, hi, outcome, first, reversed, loopLow, loopHigh,
                   kind, pdqVars, iterations, heap, have>>

\* p := partition(data, a, b, pivot) on a range [a, b) holding the pivot.
CallPartition ==
    \E a, b, pivot \in 0..Size(data) :
        /\ pc = "ready"
        /\ Size(data) <= HelperLen
        /\ a <= pivot /\ pivot < b
        /\ LET r == partition(Machine(data, Size(data)), a, b, pivot)
           IN  Helped(r.m, "partition", <<a, b, pivot>>, r.r, r.r)

\* lt, gt := partition3Way(data, a, b, pivot) on a range [a, b) holding the
\* pivot.
CallPartition3Way ==
    \E a, b, pivot \in 0..Size(data) :
        /\ pc = "ready"
        /\ Size(data) <= HelperLen
        /\ a <= pivot /\ pivot < b
        /\ LET r == partition3Way(Machine(data, Size(data)), a, b, pivot)
           IN  Helped(r.m, "partition3Way", <<a, b, pivot>>, r.lt, r.gt)

\* naiveSelect(data, k) with 2 <= k < n up to its scan: largestIdx (call.x)
\* indexes the largest of the first k elements.
NaiveSelectEnter ==
    /\ pc = "ready"
    /\ 2 <= k /\ k < Size(data)
    /\ LET g == largestOf(Machine(data, Size(data)), 1, k, 0)
       IN  Stepping(g.m, k, g.r, 0, "naiveSelect", "naive")

\* for i := k; i < length; i++ { ... }
NaiveScanStep ==
    /\ pc = "naive"
    /\ scan < Size(data)
    /\ LET g == naiveScanStep(Held, scan, k, call.x)
       IN  Stepping(g.m, scan + 1, g.r, 0, "naiveSelect", "naive")

\* return 0, k
NaiveSelectReturn ==
    /\ pc = "naive"
    /\ scan >= Size(data)
    /\ Returned(Ret(Held, 0, k), "naiveSelect", "ok")
    /\ pc' = "done"
    /\ UNCHANGED <<k, input, first>>

\* The last step of heapSelect on an index array of k distinct indices in
\* any order: slices.Sort(heap); for i := range heap { data.Swap(i, heap[i]) }.
\* heap keeps the indices as they were given.
FinalExchange ==
    /\ pc = "ready"
    /\ 0 <= k /\ k <= Size(data) /\ Size(data) <= HelperLen
    /\ \E idx \in [0..k - 1 -> DOMAIN data] :
          /\ \A i, j \in 0..k - 1 : i # j => idx[i] # idx[j]
          /\ heap' = idx
          /\ LET r == heapSelectFinish([Machine(data, Size(data)) EXCEPT !.heap = idx], k)
             IN  /\ data' = r.m.d
                 /\ sw' = r.m.sw
                 /\ ls' = r.m.ls
                 /\ lo' = r.lo
                 /\ hi' = r.hi
    /\ fn' = "finalExchange"
    /\ pc' = "done"
    /\ outcome' = "ok"
    /\ UNCHANGED <<k, input, first, reversed, loopLow, loopHigh, kind, pdqVars,
                   iterations, scan, have, call>>

Init_helper ==
    /\ data \in UNION {[0..n - 1 -> Vals] : n \in 0..HelperLen}
                \cup [0..LongLen - 1 -> LongVals]
    /\ IF Size(data) <= HelperLen THEN k \in Ks
       ELSE k = LongLen \div 2
    /\ input = data
    /\ pc = "ready"
    /\ fn = "none"
    /\ lo = 0
    /\ hi = 0
    /\ outcome = "none"
    /\ sw = 0
    /\ ls = 0
    /\ first = NoBag
    /\ reversed = FALSE
    /\ loopLow = 0
    /\ loopHigh = 0
    /\ pdqVars = NoLoop
    /\ heap = <<>>
    /\ scan = 0
    /\ have = <<>>
    /\ call = NoCall
    /\ iterations = 0
    /\ kind = "int"

Next_helper ==
    \/ CallPartition
    \/ CallPartition3Way
    \/ NaiveSelectEnter
    \/ NaiveScanStep
    \/ NaiveSelectReturn
    \/ FinalExchange
    \/ CallQuickSelect
    \/ CallNaiveSelect
    \/ Fuzz_quickSelect

Spec_helper == Init_helper /\ [][Next_helper]_vars


\* C21: partition(data, a, b, pivot) with a <= pivot < b returns p with
\* a <= p < b; the element at p is the one that was at pivot, every element
\* of [a, p) is less than it, no element of (p, b) is less than it, and the
\* positions outside [a, b) keep their elements.
C21_PartitionSplits ==
    Called("partition") =>
        LET p == call.x
        IN  /\ call.a <= p /\ p < call.b
            /\ data[p] = input[call.pivot]
            /\ \A i \in call.a..p - 1 : data[i] < data[p]
            /\ \A i \in p + 1..call.b - 1 : ~(data[i] < data[p])
            /\ \A i \in DOMAIN data : (i < call.a \/ i >= call.b) => data[i] = input[i]

\* A call on a range that leaves an element out, whose pivot is not its first
\* element and whose scans exchange a pair before they cross, with elements
\* on both sides of the returned position.
C21_Witness ==
    /\ Called("partition")
    /\ call.b - call.a < Size(data)
    /\ call.pivot # call.a
    /\ sw >= 3
    /\ call.a < call.x /\ call.x < call.b - 1


\* C22: partition3Way(data, a, b, pivot) with a <= pivot < b returns (lt, gt)
\* such that every element of [a, lt) is less than the element that was at
\* pivot, every element of [lt, gt] equals it and every element of (gt, b) is
\* greater.
C22_Partition3WaySplits ==
    Called("partition3Way") =>
        LET v == input[call.pivot]
        IN  /\ \A i \in call.a..call.x - 1 : data[i] < v
            /\ \A i \in call.x..call.y : data[i] = v
            /\ \A i \in call.y + 1..call.b - 1 : data[i] > v


\* C23: the limit of pdqQuickSelect is never negative at a loop head (an
\* exhausted budget is seen as limit == 0 by the next loop head, which sorts
\* the range by heap sort and returns).
C23_LimitNeverNegative == pc = "pdq" => pdqVars.limit >= 0


\* C24: k is an absolute index throughout pdqQuickSelect: no iteration
\* changes it, and a <= k <= b holds at every loop head.
C24_KAbsolute ==
    /\ [](pc = "pdq" => pdqVars.a <= pdqVars.k /\ pdqVars.k <= pdqVars.b)
    /\ [][(pc = "pdq" /\ pc' = "pdq") => pdqVars'.k = pdqVars.k]_vars

\* C25 (as stated): QuickSelect of src/unnamed/part_001 starts the engine
\* with limit = ceil(log2(n)) for every n >= 1: limit is the least L with
\* 2^L >= n.
C25_LimitCeilLog2 ==
    (pc = "pdq" /\ iterations = 0) =>
        /\ 2^pdqVars.limit >= Size(input)
        /\ pdqVars.limit = 0 \/ 2^(pdqVars.limit - 1) < Size(input)

\* C25 (amended): the engine starts with limit = bits.Len(n), the number of
\* bits of n: 2^(limit-1) <= n < 2^limit, which is floor(log2(n)) + 1.
C25_LimitBitLength ==
    (pc = "pdq" /\ iterations = 0) =>
        /\ 1 <= pdqVars.limit
        /\ 2^(pdqVars.limit - 1) <= Size(input)
        /\ Size(input) < 2^pdqVars.limit

\* The engine is entered on a collection whose length is a power of two.
C25_Witness ==
    /\ pc = "pdq" /\ iterations = 0
    /\ Size(input) = PdqLen
    /\ pdqVars.limit = 5


\* ------------------------------------------------- sortedness on its own
\* The collections sortedness and choosePivot are called on: ascending,
\* descending, constant and alternating ones of every length up to ShortLen,
\* where the stride of the sampling loop is 1 and a range can hold the 50
\* elements of the ninther, and of the lengths SortedLen and SortedLen + 2,
\* the two shortest at which the stride is 2.
ShortLen == 56

SortedLen == 400

Shapes == {"ascending", "descending", "constant", "alternating"}

Shaped(shape, n) ==
    [i \in 0..n - 1 |->
        CASE shape = "ascending" -> i
          [] shape = "descending" -> n - i
          [] shape = "constant" -> 0
          [] OTHER -> i % 2]

\* s := sortedness(data) up to its loop: the lengths 0, 1 and 2 return from
\* the switch (a pair of equal elements falls through to the loop).
SortednessEnter ==
    /\ pc = "ready"
    /\ LET m == Machine(data, Size(data))
           s == sortedness(m)
       IN  IF m.n <= 1 \/ (m.n = 2 /\ data[0] # data[1])
           THEN Helped(s.m, "sortedness", <<0, m.n, 0>>, s.num, s.den)
           ELSE Stepping(IF m.n = 2 THEN Tick(m, 2) ELSE m, 0, 0, 0,
                         "sortedness", "sampling")

\* for i := 0; i < ln-1; i += stride { ... }
SortednessStep ==
    /\ pc = "sampling"
    /\ scan < Size(data) - 1
    /\ LET r == sortednessStep(Held, scan, call.x, call.y)
       IN  Stepping(r.m, scan + strideOf(Size(data)), r.ordered, r.inverted,
                    "sortedness", "sampling")

\* actualSamples := (ln - 1) / stride; return float32(ordered-inverted) /
\* float32(actualSamples): call.x / call.y is the returned quotient.
SortednessReturn ==
    /\ pc = "sampling"
    /\ scan >= Size(data) - 1
    /\ LET s == sortednessScore([m |-> Held, ordered |-> call.x, inverted |-> call.y],
                                strideOf(Size(data)))
       IN  Helped(s.m, "sortedness", <<0, Size(data), 0>>, s.num, s.den)

\* pivot := choosePivot(data[a:b] seen at its place, a, b) on a range of at
\* least one element: only the indices of [a, b) exist, so that a comparison
\* at any other index aborts the run.
CallChoosePivot ==
    \E a, b \in 0..Size(data) :
        /\ pc = "ready"
        /\ Size(data) <= ShortLen
        /\ a < b
        /\ LET c == choosePivot(Machine([i \in a..b - 1 |-> data[i]], Size(data)), a, b)
           IN  Helped([c.m EXCEPT !.d = data], "choosePivot", <<a, b, 0>>, c.r, c.swaps)

Next_sorted ==
    \/ CallChoosePivot
    \/ SortednessEnter
    \/ SortednessStep
    \/ SortednessReturn

Init_sorted ==
    /\ data \in {Shaped(shape, n) : shape \in Shapes,
                                    n \in 0..ShortLen \cup {SortedLen, SortedLen + 2}}
    /\ k = 0
    /\ input = data
    /\ pc = "ready"
    /\ fn = "none"
    /\ lo = 0
    /\ hi = 0
    /\ outcome = "none"
    /\ sw = 0
    /\ ls = 0
    /\ first = NoBag
    /\ reversed = FALSE
    /\ loopLow = 0
    /\ loopHigh = 0
    /\ pdqVars = NoLoop
    /\ heap = <<>>
    /\ scan = 0
    /\ have = <<>>
    /\ call = NoCall
    /\ iterations = 0
    /\ kind = "int"

Spec_sorted == Init_sorted /\ [][Next_sorted]_vars

\* C26: the score of sortedness lies in [-1, 1]: for n >= 3 the divisor
\* actualSamples = (n-1)/stride is at least 1 and |ordered - inverted| does
\* not exceed it.
C26_ScoreWithinUnit ==
    (Called("sortedness") /\ Size(input) >= 3) =>
        /\ call.y >= 1
        /\ -call.y <= call.x /\ call.x <= call.y


\* C27: in naiveSelect with 2 <= k < n, at the start of every iteration i of
\* the scan (k <= i <= n, the exit test included) the elements at [0, k) are,
\* as a multiset, the k smallest of those at [0, i), and largestIdx lies in
\* [0, k) and indexes a largest element of [0, k).
C27_NaiveScanInvariant ==
    pc = "naive" =>
        /\ k <= scan /\ scan <= Size(data)
        /\ BagOf(data, 0, k) = SmallestBag([j \in 0..scan - 1 |-> data[j]], k)
        /\ call.x \in 0..k - 1
        /\ \A j \in 0..k - 1 : data[j] <= data[call.x]

\* The scan has replaced the largest of the first k elements at least once
\* and has elements left to examine.
C27_Witness ==
    /\ pc = "naive"
    /\ sw >= 1
    /\ scan < Size(data)
    /\ call.x # 0


C29_FinalExchange ==
    Called("finalExchange") =>
        \A v \in Vals :
            Cardinality({i \in 0..k - 1 : data[i] = v})
                = Cardinality({x \in DOMAIN heap : input[heap[x]] = v})

\* Three or more indices given out of order, some of them inside [0, k) and
\* some beyond, whose exchange changes the collection.
C29_Witness ==
    /\ Called("finalExchange")
    /\ k >= 3
    /\ heap[0] > heap[1]
    /\ \E x \in DOMAIN heap : heap[x] < k
    /\ \E x \in DOMAIN heap : heap[x] >= k
    /\ data # input


\* C30: choosePivot(data, a, b) with b - a >= 1 returns p with a <= p < b and
\* passes only indices of [a, b) to Less (the neighbours that medianAdjacent
\* takes when b - a >= 50 included); for b - a < 8 it makes no comparison and
\* returns a + 2*((b-a)/4).
C30_ChoosePivotWithinRange ==
    Called("choosePivot") =>
        /\ outcome = "ok"
        /\ call.a <= call.x /\ call.x < call.b
        /\ (call.b - call.a < 8) =>
              (ls = 0 /\ call.x = call.a + 2 * ((call.b - call.a) \div 4))

\* A range of at least 50 elements strictly inside the collection, on which
\* the ninther makes its twelve comparisons and finds pairs out of order.
C30_Witness ==
    /\ Called("choosePivot")
    /\ call.b - call.a >= shortestNinther
    /\ 0 < call.a /\ call.b < Size(data)
    /\ ls = 12
    /\ call.y > 0

============================================================================
